---- MODULE Spec2Model ----
(***************************************************************************)
(* Sliding-window propagation / optimization engine of rio:                *)
(*   src/src/gtsam/propagation.cpp   Propagation (IMU preintegration chain)*)
(*   src/src/gtsam/optimization.cpp  Optimization (factor builder and the  *)
(*                                   background-solve coordinator)         *)
(* Geometry is one-dimensional and integer valued: a pose is a position,   *)
(* a velocity and a bias are integers, time is counted in integer ticks.   *)
(***************************************************************************)
EXTENDS Integers, Sequences, FiniteSets, TLC

\* ------------------------------------------------------------------ bounds
\* Latest timestamp an inertial sample may carry.
MaxTime == 4
\* Largest value the node-index counter may reach through splits.
MaxIdx == 2
\* Most detections a radar scan may hold when the factor builder is taken on
\* its own.
MaxDetections == 3

\* Readings an inertial sample may carry.
Readings == {1}
\* Steps between two consecutive inertial samples.
SampleSteps == {2}
\* Corrections the solver may apply to (pose, velocity, bias) in one cycle.
SolverDeltas == {<<0, 0, 0>>, <<1, 0, 1>>}
\* Window of the fixed-lag smoother, in ticks.
SmootherLag == 2

\* ------------------------------------------------------ optional values
\* std::optional<T>: the empty sequence is std::nullopt.
nullopt == <<>>
has_value(o) == Len(o) > 0
value(o) == o[1]
Some(v) == <<v>>

\* ---------------------------------------------------------------- State
\* gtsam::PreintegratedCombinedMeasurements, reduced to one axis.  Positions
\* and deltaPij are counted in half units, so that the a * dt^2 / 2 of the
\* integration stays an integer and two steps under one reading add up to
\* the one step over both.
resetIntegrationAndSetBias(integrator, bias) ==
  [biasHat |-> bias, deltaTij |-> 0, deltaPij |-> 0, deltaVij |-> 0]

\* A reset that leaves the window as it is.
keepIntegration(integrator) == integrator

resetIntegration(integrator) ==
  resetIntegrationAndSetBias(integrator, integrator.biasHat)

integrateMeasurement(integrator, lin_acc, dt) ==
  LET a == lin_acc - integrator.biasHat
  IN  [biasHat  |-> integrator.biasHat,
       deltaTij |-> integrator.deltaTij + dt,
       deltaPij |-> integrator.deltaPij + 2 * integrator.deltaVij * dt
                      + a * dt * dt,
       deltaVij |-> integrator.deltaVij + a * dt]

\* integrator.predict(nav_state_i, bias): the state at the end of the window.
predict(integrator, nav) ==
  [p |-> nav.p + 2 * nav.v * integrator.deltaTij + integrator.deltaPij,
   v |-> nav.v + integrator.deltaVij]

\* An inertial sample: header.stamp and the reading.
Imu(t, a) == [stamp |-> t, reading |-> a]

\* A null State::ConstPtr, a null sensor_msgs::msg::Imu::ConstSharedPtr.
nullptr == [null |-> TRUE]

\* rio::State
MkState(I_p_IB, I_v_IB, imu, integrator, baro_height_bias) ==
  [I_p_IB |-> I_p_IB, I_v_IB |-> I_v_IB, imu |-> imu,
   integrator |-> integrator, baro_height_bias |-> baro_height_bias]

getNavState(state) == [p |-> state.I_p_IB, v |-> state.I_v_IB]
getBias(state) == state.integrator.biasHat

\* ---------------------------------------------------------- Propagation
\* A constructor that does not take the first node index over.
MkPropagationNoFirstIdx(initial_states, first_state_idx, last_state_idx) ==
  [states_ |-> initial_states,
   first_state_idx_ |-> 0,
   last_state_idx_ |-> last_state_idx,
   cfar_detections_ |-> nullopt,
   cfar_tracks_ |-> nullopt,
   B_T_BR_ |-> nullopt,
   baro_height_ |-> nullopt]

MkPropagation(initial_states, first_state_idx, last_state_idx) ==
  [states_ |-> initial_states,
   first_state_idx_ |-> first_state_idx,
   last_state_idx_ |-> last_state_idx,
   cfar_detections_ |-> nullopt,
   cfar_tracks_ |-> nullopt,
   B_T_BR_ |-> nullopt,
   baro_height_ |-> nullopt]

getFirstState(prop) == prop.states_[1]
getLatestState(prop) == prop.states_[Len(prop.states_)]
getFirstStateIdx(prop) == prop.first_state_idx_
getLastStateIdx(prop) == prop.last_state_idx_

Stamps(prop) == [i \in 1..Len(prop.states_) |-> prop.states_[i].imu.stamp]

\* An addImuMeasurement that does not look at dt.
addImuMeasurementAnyDt(prop, msg) ==
  IF prop.states_ = <<>> THEN [ok |-> FALSE, prop |-> prop]
  ELSE [ok |-> TRUE,
        prop |-> [prop EXCEPT !.states_ =
                    Append(@, MkState(0, 0, msg,
                                      resetIntegrationAndSetBias(<<>>, 0),
                                      nullopt))]]

\* Propagation::addImuMeasurement: [ok, prop].
addImuMeasurement(prop, msg) ==
  IF prop.states_ = <<>> THEN [ok |-> FALSE, prop |-> prop]
  ELSE IF getFirstState(prop) = nullptr THEN [ok |-> FALSE, prop |-> prop]
  ELSE IF getLatestState(prop).imu = nullptr
    THEN [ok |-> FALSE, prop |-> prop]
  ELSE
    LET back == getLatestState(prop)
        dt == msg.stamp - back.imu.stamp
    IN  IF dt < 0 \/ dt = 0 THEN [ok |-> FALSE, prop |-> prop]
        ELSE
          LET integrator == integrateMeasurement(back.integrator, msg.reading, dt)
              prediction == predict(integrator, getNavState(getFirstState(prop)))
          IN  [ok |-> TRUE,
               prop |-> [prop EXCEPT !.states_ =
                           Append(@, MkState(prediction.p, prediction.v, msg,
                                             integrator, back.baro_height_bias))]]

\* A loop that feeds nothing.
addNone(prop, msgs, i) == prop

\* Feeds the samples msgs[i..] into prop one by one; a failed sample is skipped
\* (Propagation::split ignores addImuMeasurement's result).
RECURSIVE addAllIgnoring(_, _, _)
addAllIgnoring(prop, msgs, i) ==
  IF i > Len(msgs) THEN prop
  ELSE addAllIgnoring(addImuMeasurement(prop, msgs[i]).prop, msgs, i + 1)

\* std::upper_bound in its place: the first position whose stamp is > t.
RECURSIVE upper_bound(_, _, _)
upper_bound(states, t, i) ==
  IF i > Len(states) THEN i
  ELSE IF states[i].imu.stamp <= t THEN upper_bound(states, t, i + 1)
  ELSE i

\* std::lower_bound over states_: the first position whose stamp is not < t,
\* Len + 1 when there is none.
RECURSIVE lower_bound(_, _, _)
lower_bound(states, t, i) ==
  IF i > Len(states) THEN i
  ELSE IF states[i].imu.stamp < t THEN lower_bound(states, t, i + 1)
  ELSE i

\* A boundary sample that takes the time but not the readings.
holdNothing(state_1, t) == Imu(t, 0)

\* The zero-order-hold sample of split: the readings of state_1, stamped t.
zeroOrderHold(state_1, t) == Imu(t, state_1.imu.reading)

\* A split that counts the attempt whatever comes of it.
splitCountsAttempts(prop, t, split_idx, to0, from0) ==
  [ok |-> FALSE, to |-> to0, from |-> from0, idx |-> split_idx + 1]

\* Propagation::split: [ok, to, from, idx]; to/from are the caller's output
\* objects (to0/from0 on entry), idx the counter *split_idx.
split(prop, t, split_idx, to0, from0) ==
  LET fail == [ok |-> FALSE, to |-> to0, from |-> from0, idx |-> split_idx]
  IN
  IF prop.states_ = <<>> THEN fail
  ELSE IF getFirstState(prop) = nullptr THEN fail
  ELSE IF t < getFirstState(prop).imu.stamp THEN fail
  ELSE IF t > getLatestState(prop).imu.stamp THEN fail
  ELSE
    LET i1 == lower_bound(prop.states_, t, 1)
    IN  IF i1 = 1 THEN fail
        ELSE IF i1 = Len(prop.states_) + 1 THEN fail
        ELSE
          LET state_1 == prop.states_[i1]
              state_0 == prop.states_[i1 - 1]
              imu == zeroOrderHold(state_1, t)
              to_a == MkPropagation(SubSeq(prop.states_, 1, i1 - 1),
                                    prop.first_state_idx_, Some(split_idx))
              to_t == IF t > state_0.imu.stamp
                        THEN addImuMeasurement(to_a, imu).prop
                        ELSE to_a
              latest == getLatestState(to_t)
              initial_state ==
                MkState(latest.I_p_IB, latest.I_v_IB, latest.imu,
                        resetIntegrationAndSetBias(latest.integrator,
                                                   latest.integrator.biasHat),
                        latest.baro_height_bias)
              rest == [k \in 1..(Len(prop.states_) - i1 + 1) |->
                         prop.states_[i1 + k - 1].imu]
              from_t ==
                IF t < state_1.imu.stamp
                  THEN addAllIgnoring(
                         MkPropagation(<<initial_state>>, split_idx,
                                       prop.last_state_idx_), rest, 1)
                  ELSE MkPropagation(
                         SubSeq(prop.states_, i1, Len(prop.states_)),
                         split_idx, prop.last_state_idx_)
          IN  [ok |-> TRUE, to |-> to_t, from |-> from_t, idx |-> split_idx + 1]

\* The replay loop of Propagation::repropagate: [ok, prop].
RECURSIVE replay(_, _, _)
replay(prop, states, i) ==
  IF i > Len(states) THEN [ok |-> TRUE, prop |-> prop]
  ELSE
    LET r == addImuMeasurement(prop, states[i].imu)
    IN  IF ~r.ok THEN [ok |-> FALSE, prop |-> prop]
        ELSE replay(r.prop, states, i + 1)

\* A repropagate that rebuilds in place: what was replayed before a failure
\* stays.
repropagateInPlace(prop, initial_state) ==
  IF prop.states_ = <<>> THEN [ok |-> FALSE, prop |-> prop]
  ELSE replay(MkPropagation(<<initial_state>>, prop.first_state_idx_,
                            prop.last_state_idx_), prop.states_, 2)

\* Propagation::repropagate: [ok, prop]; prop is *this after the call.
repropagate(prop, initial_state) ==
  IF prop.states_ = <<>> THEN [ok |-> FALSE, prop |-> prop]
  ELSE
    LET first_state == [initial_state EXCEPT
                          !.integrator = resetIntegration(@)]
        scratch == MkPropagation(<<first_state>>, prop.first_state_idx_,
                                 prop.last_state_idx_)
        r == replay(scratch, prop.states_, 2)
    IN  IF r.ok THEN [ok |-> TRUE, prop |-> r.prop]
        ELSE [ok |-> FALSE, prop |-> prop]

\* ------------------------------------------------- pending graph increment
\* Keys of the estimated variables: X (pose), V (velocity), B (bias) of a node
\* index and L (position) of a landmark id.
X(i) == <<"X", i>>
V(i) == <<"V", i>>
B(i) == <<"B", i>>
L(i) == <<"L", i>>

\* The empty map (gtsam::Values, KeyTimestampMap).
EmptyMap == [k \in {} |-> 0]

\* The pending increment while one builder call runs: new_graph_ (ordered),
\* new_values_, new_timestamps_, the landmarks marked added, and whether
\* the call ended in an exception.
MkIncrement(graph, values, stamps, added) ==
  [graph |-> graph, values |-> values, stamps |-> stamps, added |-> added,
   threw |-> FALSE]

\* gtsam::Values::insert: throws when the key is already present.
insert(inc, key, val) ==
  IF inc.threw THEN inc
  ELSE IF key \in DOMAIN inc.values THEN [inc EXCEPT !.threw = TRUE]
  ELSE [inc EXCEPT !.values = (key :> val) @@ @]

\* new_timestamps_[key] = stamp
setStamp(inc, key, stamp) ==
  IF inc.threw THEN inc
  ELSE [inc EXCEPT !.stamps = (key :> stamp) @@ @]

\* A builder that keeps only the factor added last.
addOverwrites(inc, factor) ==
  IF inc.threw THEN inc
  ELSE [inc EXCEPT !.graph = <<factor>>]

\* new_graph_.add(factor); a factor is <<kind, keys, measurement>>.
add(inc, factor) ==
  IF inc.threw THEN inc
  ELSE [inc EXCEPT !.graph = Append(@, factor)]

\* addFactor<PriorFactor<Pose3>>, <Vector3>, <imuBias::ConstantBias>
addPriorPose(inc, prop) ==
  LET idx == getFirstStateIdx(prop)
      state == getFirstState(prop)
  IN  add(setStamp(insert(inc, X(idx), state.I_p_IB), X(idx), state.imu.stamp),
          <<"PriorPose", <<X(idx)>>, state.I_p_IB>>)

addPriorVelocity(inc, prop) ==
  LET idx == getFirstStateIdx(prop)
      state == getFirstState(prop)
  IN  add(setStamp(insert(inc, V(idx), state.I_v_IB), V(idx), state.imu.stamp),
          <<"PriorVelocity", <<V(idx)>>, state.I_v_IB>>)

addPriorBias(inc, prop) ==
  LET idx == getFirstStateIdx(prop)
      state == getFirstState(prop)
  IN  add(setStamp(insert(inc, B(idx), getBias(state)), B(idx), state.imu.stamp),
          <<"PriorBias", <<B(idx)>>, getBias(state)>>)

\* Optimization::addPriorFactor
addPriorFactor(inc, prop) ==
  addPriorBias(addPriorVelocity(addPriorPose(inc, prop), prop), prop)

\* addFactor<CombinedImuFactor>
addImuFactor(inc, prop) ==
  IF ~has_value(getLastStateIdx(prop)) THEN inc
  ELSE
    LET first_idx == getFirstStateIdx(prop)
        second_idx == value(getLastStateIdx(prop))
    IN  add(inc, <<"CombinedImu",
                   <<X(first_idx), V(first_idx), X(second_idx), V(second_idx),
                     B(first_idx), B(second_idx)>>,
                   getLatestState(prop).integrator>>)

\* Detections closer than this (0.1 m, in centimetres) are rejected.
MinRange == 10

\* A loop that a detection too close to the radar ends.
RECURSIVE dopplerLoopStops(_, _, _, _)
dopplerLoopStops(inc, idx, detections, i) ==
  IF i > Len(detections) THEN inc
  ELSE IF detections[i].range < MinRange THEN inc
  ELSE dopplerLoopStops(add(inc, <<"Doppler", <<X(idx), V(idx), B(idx)>>,
                                   detections[i].velocity>>),
                        idx, detections, i + 1)

\* The loop of Optimization::addDopplerFactors over the detections.
RECURSIVE dopplerLoop(_, _, _, _)
dopplerLoop(inc, idx, detections, i) ==
  IF i > Len(detections) THEN inc
  ELSE IF detections[i].range < MinRange
    THEN dopplerLoop(inc, idx, detections, i + 1)
    ELSE dopplerLoop(add(inc, <<"Doppler", <<X(idx), V(idx), B(idx)>>,
                                detections[i].velocity>>),
                     idx, detections, i + 1)

\* Optimization::addDopplerFactors
addDopplerFactors(inc, prop) ==
  IF ~has_value(getLastStateIdx(prop)) THEN inc
  ELSE IF ~has_value(prop.cfar_detections_) THEN inc
  ELSE IF ~has_value(prop.B_T_BR_) THEN inc
  ELSE dopplerLoop(inc, value(getLastStateIdx(prop)),
                   value(prop.cfar_detections_), 1)

\* A loop that seeds the landmark at every reference.
RECURSIVE bearingRangeLoopReseeds(_, _, _, _, _)
bearingRangeLoopReseeds(inc, idx, state, tracks, i) ==
  IF i > Len(tracks) THEN inc
  ELSE
    LET track == tracks[i]
        a == setStamp(add(inc, <<"BearingRange", <<X(idx), L(track.id)>>,
                                 track.R_p_RT>>),
                      L(track.id), state.imu.stamp)
        c == insert(a, L(track.id), state.I_p_IB + track.R_p_RT)
        b == IF c.threw THEN c ELSE [c EXCEPT !.added = @ \cup {track.id}]
    IN  bearingRangeLoopReseeds(b, idx, state, tracks, i + 1)

\* The loop of addFactor<BearingRangeFactor<Pose3, Point3>> over the tracks.
RECURSIVE bearingRangeLoop(_, _, _, _, _)
bearingRangeLoop(inc, idx, state, tracks, i) ==
  IF i > Len(tracks) THEN inc
  ELSE
    LET track == tracks[i]
        a == setStamp(add(inc, <<"BearingRange", <<X(idx), L(track.id)>>,
                                 track.R_p_RT>>),
                      L(track.id), state.imu.stamp)
        b == IF track.id \in a.added THEN a
             ELSE LET c == insert(a, L(track.id), state.I_p_IB + track.R_p_RT)
                  IN  IF c.threw THEN c
                      ELSE [c EXCEPT !.added = @ \cup {track.id}]
    IN  bearingRangeLoop(b, idx, state, tracks, i + 1)

\* addFactor<BearingRangeFactor<Pose3, Point3>>
addBearingRangeFactors(inc, prop) ==
  IF ~has_value(getLastStateIdx(prop)) THEN inc
  ELSE IF ~has_value(prop.cfar_tracks_) THEN inc
  ELSE IF ~has_value(prop.B_T_BR_) THEN inc
  ELSE bearingRangeLoop(inc, value(getLastStateIdx(prop)),
                        getLatestState(prop), value(prop.cfar_tracks_), 1)

\* The tail of Optimization::addRadarFactor: initial values of the split node.
addSplitValues(inc, prop) ==
  IF ~has_value(getLastStateIdx(prop)) THEN inc
  ELSE
    LET idx == value(getLastStateIdx(prop))
        state == getLatestState(prop)
        stamp == state.imu.stamp
        x == setStamp(insert(inc, X(idx), state.I_p_IB), X(idx), stamp)
        v == setStamp(insert(x, V(idx), state.I_v_IB), V(idx), stamp)
    IN  setStamp(insert(v, B(idx), getBias(state)), B(idx), stamp)

\* An addRadarFactor that leaves the inertial factor of the propagation after
\* the split node out.
addRadarFactorToOnly(inc, propagation_to_radar, propagation_from_radar) ==
  addSplitValues(
    addBearingRangeFactors(
      addDopplerFactors(addImuFactor(inc, propagation_to_radar),
                        propagation_to_radar),
      propagation_to_radar),
    propagation_to_radar)

\* Optimization::addRadarFactor
addRadarFactor(inc, propagation_to_radar, propagation_from_radar) ==
  addSplitValues(
    addBearingRangeFactors(
      addDopplerFactors(
        addImuFactor(addImuFactor(inc, propagation_to_radar),
                     propagation_from_radar),
        propagation_to_radar),
      propagation_to_radar),
    propagation_to_radar)

\* An addBaroFactor that does not ask for the height bias.
addBaroFactorAnyBias(inc, propagation_to_baro) ==
  IF ~has_value(getLastStateIdx(propagation_to_baro)) THEN inc
  ELSE IF ~has_value(propagation_to_baro.baro_height_) THEN inc
  ELSE add(inc, <<"Baro", <<X(value(getLastStateIdx(propagation_to_baro)))>>,
                  value(propagation_to_baro.baro_height_)>>)

\* Optimization::addBaroFactor
addBaroFactor(inc, propagation_to_baro) ==
  IF ~has_value(getLastStateIdx(propagation_to_baro)) THEN inc
  ELSE IF ~has_value(propagation_to_baro.baro_height_) THEN inc
  ELSE IF ~has_value(getLatestState(propagation_to_baro).baro_height_bias)
    THEN inc
  ELSE add(inc, <<"Baro", <<X(value(getLastStateIdx(propagation_to_baro)))>>,
                  value(propagation_to_baro.baro_height_)>>)

\* ------------------------------------------------------------- Smoother
\* gtsam::IncrementalFixedLagSmoother as far as the coordinator relies on it:
\* the factors and initial values it was given and the timestamps of the keys
\* it retains.
EmptySmoother == [factors |-> {}, values |-> EmptyMap, stamps |-> EmptyMap]

Range(f) == {f[x] : x \in DOMAIN f}
FactorKeys(graph) == UNION {Range(f[2]) : f \in Range(graph)}
MaxOf(S) == CHOOSE x \in S : \A y \in S : y <= x
MinOf(S) == CHOOSE x \in S : \A y \in S : x <= y
Restrict(f, S) == [k \in S |-> f[k]]

\* Whether update(graph, values, stamps) can succeed at all: a value must be
\* new to the smoother and every factor must refer to known variables.
updateAccepts(smoother, graph, values, stamps) ==
  /\ DOMAIN values \cap DOMAIN smoother.values = {}
  /\ FactorKeys(graph) \subseteq (DOMAIN values \cup DOMAIN smoother.values)

\* A smoother whose update takes the values and timestamps in but not the
\* factors.
updateDropsFactors(smoother, graph, values, stamps) ==
  LET vals == values @@ smoother.values
      st == stamps @@ smoother.stamps
      keep == IF DOMAIN st = {} THEN {}
              ELSE {k \in DOMAIN st : st[k] >= MaxOf(Range(st)) - SmootherLag}
  IN  [factors |-> smoother.factors,
       values |-> Restrict(vals, DOMAIN vals \cap keep),
       stamps |-> Restrict(st, keep)]

\* smoother_.update(graph, values, stamps) when it returns: the increment is
\* absorbed and every key older than the lag is marginalized out.
update(smoother, graph, values, stamps) ==
  LET vals == values @@ smoother.values
      st == stamps @@ smoother.stamps
      keep == IF DOMAIN st = {} THEN {}
              ELSE {k \in DOMAIN st : st[k] >= MaxOf(Range(st)) - SmootherLag}
  IN  [factors |-> smoother.factors \cup Range(graph),
       values |-> Restrict(vals, DOMAIN vals \cap keep),
       stamps |-> Restrict(st, keep)]

\* smoother_.calculateEstimate() when it returns: one value per retained
\* variable, the initial value corrected by the cycle's delta.
calculateEstimate(smoother, delta) ==
  [k \in DOMAIN smoother.values |->
     smoother.values[k] +
       (CASE k[1] = "X" -> delta[1]
          [] k[1] = "V" -> delta[2]
          [] k[1] = "B" -> delta[3]
          [] OTHER -> 0)]

\* --------------------------------------------- background task, caching
\* The while loop of solveThreaded: drop the propagations whose first state
\* is older than the smoother's earliest retained timestamp.
RECURSIVE popMarginalized(_, _)
popMarginalized(props, smallest_time) ==
  IF props # <<>> /\ getFirstState(props[1]).imu.stamp < smallest_time
    THEN popMarginalized(Tail(props), smallest_time)
    ELSE props

\* A loop body that re-predicts from the first state as it is.
cacheOneUnsolved(prop, new_values) ==
  LET idx == getFirstStateIdx(prop)
  IN  IF ~({X(idx), V(idx), B(idx)} \subseteq DOMAIN new_values)
        THEN [ok |-> FALSE, prop |-> prop]
        ELSE repropagate(prop, getFirstState(prop))

\* The body of the for loop of solveThreaded for one propagation: [ok, prop].
cacheOne(prop, new_values) ==
  LET idx == getFirstStateIdx(prop)
      first == getFirstState(prop)
  IN  IF ~({X(idx), V(idx), B(idx)} \subseteq DOMAIN new_values)
        THEN [ok |-> FALSE, prop |-> prop]
        ELSE repropagate(prop,
               MkState(new_values[X(idx)], new_values[V(idx)], first.imu,
                       resetIntegrationAndSetBias(first.integrator,
                                                  new_values[B(idx)]),
                       first.baro_height_bias))

\* The for loop of solveThreaded: [ok, props]; it stops at the first failure.
RECURSIVE cacheLoop(_, _, _)
cacheLoop(props, new_values, i) ==
  IF i > Len(props) THEN [ok |-> TRUE, props |-> props]
  ELSE
    LET r == cacheOne(props[i], new_values)
    IN  IF ~r.ok THEN [ok |-> FALSE, props |-> props]
        ELSE cacheLoop([props EXCEPT ![i] = r.prop], new_values, i + 1)

\* ------------------------------------------------- getResult, the merge
\* A first loop that pops nothing.
keepFront(propagation, front_idx) == propagation

\* First loop of getResult: pop the caller's front until its first node index
\* is front_idx, the first node index of the stored deque's front.
RECURSIVE deqeueCleanup(_, _)
deqeueCleanup(propagation, front_idx) ==
  IF propagation # <<>> /\ getFirstStateIdx(propagation[1]) # front_idx
    THEN deqeueCleanup(Tail(propagation), front_idx)
    ELSE propagation

\* A predicate that compares the first node index only.
sameFirstIdx(p, it) == getFirstStateIdx(p) = getFirstStateIdx(it)

\* The predicate of std::find_if in getResult.
sameIndices(p, it) ==
  /\ getFirstStateIdx(p) = getFirstStateIdx(it)
  /\ has_value(getLastStateIdx(p))
  /\ has_value(getLastStateIdx(it))
  /\ value(getLastStateIdx(p)) = value(getLastStateIdx(it))

\* std::find_if: the first position of stored that matches it, 0 for end().
find_if(stored, it) ==
  IF \E j \in 1..Len(stored) : sameIndices(stored[j], it)
    THEN MinOf({j \in 1..Len(stored) : sameIndices(stored[j], it)})
    ELSE 0

\* Second loop of getResult: [propagation, stored, updated].
RECURSIVE copyCachedPropagations(_, _, _, _)
copyCachedPropagations(propagation, stored, updated, i) ==
  IF i > Len(propagation)
    THEN [propagation |-> propagation, stored |-> stored, updated |-> updated]
    ELSE
      LET j == find_if(stored, propagation[i])
      IN  IF j = 0
            THEN copyCachedPropagations(propagation, stored, updated, i + 1)
            ELSE copyCachedPropagations(
                   [propagation EXCEPT ![i] = stored[j]],
                   IF j = 1 THEN Tail(stored) ELSE stored,
                   updated \cup {i}, i + 1)

\* A third loop that re-predicts nothing.
repropagateNone(propagation, updated, i) == propagation

\* Third loop of getResult: re-predict what the second loop did not replace.
RECURSIVE repropagateNewPropagations(_, _, _)
repropagateNewPropagations(propagation, updated, i) ==
  IF i > Len(propagation) THEN propagation
  ELSE IF i \in updated \/ i = 1
    THEN repropagateNewPropagations(propagation, updated, i + 1)
    ELSE repropagateNewPropagations(
           [propagation EXCEPT ![i] =
              repropagate(@, getLatestState(propagation[i - 1])).prop],
           updated, i + 1)

\* ---------------------------------------------------------------- state
VARIABLES
  propagations,     \* the caller's live deque of Propagation
  idx,              \* the caller's node-index counter (*split_idx)
  timing,           \* the caller's timing map, written by getResult
  added,            \* landmark ids whose Track is marked added
  prior_added,      \* the caller has anchored the first node
  new_graph_,       \* Optimization::new_graph_
  new_values_,      \* Optimization::new_values_
  new_timestamps_,  \* Optimization::new_timestamps_
  timing_,          \* Optimization::timing_
  new_result_,      \* Optimization::new_result_
  propagations_,    \* Optimization::propagations_, the stored solved deque
  running_,         \* Optimization::running_
  thread_,          \* Optimization::thread_: the task it can join, or nullopt
  mutex_,           \* Optimization::mutex_: "free" or its holder
  smoother_,        \* Optimization::smoother_
  tasks,            \* number of tasks started and not yet joined
  tpc,              \* where the background task stands
  targs,            \* solveThreaded's by-value arguments
  tnew_values,      \* solveThreaded's local new_values
  cpc,              \* "ready", or "join" while getResult waits in join()
  crashed,          \* the process was terminated
  history,          \* what the calls made so far amount to, see Init
  last              \* the step just taken: [op, ok]

vars == <<propagations, idx, timing, added, prior_added, new_graph_,
          new_values_, new_timestamps_, timing_, new_result_, propagations_,
          running_, thread_, mutex_, smoother_, tasks, tpc, targs,
          tnew_values, cpc, crashed, history, last>>

callerVars == <<propagations, idx, timing, added, prior_added>>
pendingVars == <<new_graph_, new_values_, new_timestamps_>>
resultVars == <<timing_, new_result_, propagations_>>
taskVars == <<tpc, targs, tnew_values>>

NoArgs == [graph |-> <<>>, values |-> EmptyMap, stamps |-> EmptyMap,
           propagations |-> <<>>]

Step(op, ok) == [op |-> op, ok |-> ok]

\* The state the orchestrating layer starts from: one open propagation that
\* holds the initial state, node index 0, and the counter at 1.
InitialState ==
  MkState(0, 0, Imu(0, 1), resetIntegrationAndSetBias(<<>>, 0), Some(0))

Init ==
  /\ propagations = <<MkPropagation(<<InitialState>>, 0, nullopt)>>
  /\ idx = 1
  /\ timing = EmptyMap
  /\ added = {}
  /\ prior_added = FALSE
  /\ new_graph_ = <<>>
  /\ new_values_ = EmptyMap
  /\ new_timestamps_ = EmptyMap
  /\ timing_ = EmptyMap
  /\ new_result_ = FALSE
  /\ propagations_ = <<>>
  /\ running_ = FALSE
  /\ thread_ = nullopt
  /\ mutex_ = "free"
  /\ smoother_ = EmptySmoother
  /\ tasks = 0
  /\ tpc = "none"
  /\ targs = NoArgs
  /\ tnew_values = EmptyMap
  /\ cpc = "ready"
  /\ crashed = FALSE
  \* "fresh": no solve() was accepted yet; "accepted": a solve() was accepted
  \* and no getResult() has joined its task; "delivered" / "discarded": the
  \* getResult() that joined the last task returned true / false.
  /\ history = "fresh"
  /\ last = Step("init", TRUE)

Pending == MkIncrement(new_graph_, new_values_, new_timestamps_, added)

\* What a builder call leaves behind: the increment, or a terminated process
\* when gtsam::Values::insert threw in the caller's thread.
Commit(inc) ==
  IF inc.threw
    THEN /\ crashed' = TRUE
         /\ UNCHANGED <<pendingVars, added>>
    ELSE /\ new_graph_' = inc.graph
         /\ new_values_' = inc.values
         /\ new_timestamps_' = inc.stamps
         /\ added' = inc.added
         /\ UNCHANGED crashed

CallerReady == cpc = "ready" /\ ~crashed

\* ------------------------------------------------- the caller's thread
\* Radar scans and barometer heights an event may carry.  A detection is
\* [range (cm), velocity], a track [id, R_p_RT].
RadarScans ==
  {[detections |-> <<[range |-> 5, velocity |-> 1],
                     [range |-> 50, velocity |-> 2]>>,
    tracks |-> <<[id |-> 1, R_p_RT |-> 3]>>]}
BaroHeights == {7}

\* An inertial sample arrives: addImuMeasurement on the open propagation.
CallerImu(a, dt) ==
  /\ CallerReady
  /\ propagations # <<>>
  /\ LET n == Len(propagations)
         t == getLatestState(propagations[n]).imu.stamp + dt
         r == addImuMeasurement(propagations[n], Imu(t, a))
     IN  /\ t <= MaxTime
         /\ propagations' = [propagations EXCEPT ![n] = r.prop]
         /\ last' = Step("addImuMeasurement", r.ok)
  /\ UNCHANGED <<idx, timing, added, prior_added, pendingVars, resultVars,
                 running_, thread_, mutex_, smoother_, tasks, taskVars, cpc, crashed, history>>

\* The deque with entry k replaced by the two halves of its split.
Spliced(k, to, from) ==
  SubSeq(propagations, 1, k - 1) \o <<to, from>> \o
    SubSeq(propagations, k + 1, Len(propagations))

\* The initial node is anchored, once: addPriorFactor on the front
\* propagation while it still starts at node index 0.
CallerPrior ==
  /\ CallerReady
  /\ ~prior_added
  /\ propagations # <<>>
  /\ getFirstStateIdx(propagations[1]) = 0
  /\ prior_added' = TRUE
  /\ Commit(addPriorFactor(Pending, propagations[1]))
  /\ last' = Step("addPriorFactor", TRUE)
  /\ UNCHANGED <<propagations, idx, timing, resultVars, running_, thread_,
                 mutex_, smoother_, tasks, taskVars, cpc, history>>

\* A radar scan stamped t arrives: entry k is split at t, the scan is attached
\* to the closed half and addRadarFactor builds the factors of the split node.
CallerRadar(k, t, scan) ==
  /\ CallerReady
  /\ idx < MaxIdx
  /\ LET r == split(propagations[k], t, idx, propagations[k], propagations[k])
         to == [r.to EXCEPT !.cfar_detections_ = Some(scan.detections),
                            !.cfar_tracks_ = Some(scan.tracks),
                            !.B_T_BR_ = Some(0)]
     IN  IF r.ok
           THEN /\ propagations' = Spliced(k, to, r.from)
                /\ idx' = r.idx
                /\ Commit(addRadarFactor(Pending, to, r.from))
                /\ last' = Step("addRadarFactor", TRUE)
           ELSE /\ last' = Step("split", FALSE)
                /\ UNCHANGED <<propagations, idx, pendingVars, added, crashed>>
  /\ UNCHANGED <<timing, prior_added, resultVars, running_, thread_, mutex_,
                 smoother_, tasks, taskVars, cpc, history>>

\* A barometer sample stamped t arrives: entry k is split at t, the height is
\* attached to the closed half and addBaroFactor builds its factor.
CallerBaro(k, t, h) ==
  /\ CallerReady
  /\ idx < MaxIdx
  /\ LET r == split(propagations[k], t, idx, propagations[k], propagations[k])
         to == [r.to EXCEPT !.baro_height_ = Some(h)]
     IN  IF r.ok
           THEN /\ propagations' = Spliced(k, to, r.from)
                /\ idx' = r.idx
                /\ Commit(addBaroFactor(Pending, to))
                /\ last' = Step("addBaroFactor", TRUE)
           ELSE /\ last' = Step("split", FALSE)
                /\ UNCHANGED <<propagations, idx, pendingVars, added, crashed>>
  /\ UNCHANGED <<timing, prior_added, resultVars, running_, thread_, mutex_,
                 smoother_, tasks, taskVars, cpc, history>>

\* ----------------------------------------------------- Optimization::solve
\* running_.load(), the first check of solve() and of getResult().
neverRunning == FALSE

stillRunning == running_

\* thread_.joinable(): the handle holds a task that was not joined.
joinable == has_value(thread_)

\* The two early returns of solve(): it goes on only when no task runs and
\* the thread handle holds no unjoined task.
solveAcceptsUnjoined == ~stillRunning

solveAccepts == ~stillRunning /\ ~joinable

\* What solve() hands to std::thread: copies of the pending increment and of
\* the caller's deque, taken before the increment is cleared.
solveArgsAfterClear(props) ==
  [graph |-> <<>>, values |-> EmptyMap, stamps |-> EmptyMap,
   propagations |-> props]

solveArgs(props) ==
  [graph |-> new_graph_, values |-> new_values_, stamps |-> new_timestamps_,
   propagations |-> props]

\* Optimization::solve(propagations)
SolveGiven(given) ==
  /\ CallerReady
  /\ IF solveAccepts
       THEN /\ running_' = TRUE
            /\ thread_' = Some("solveThreaded")
            /\ tasks' = tasks + 1
            /\ targs' = solveArgs(given)
            /\ tpc' = "update"
            /\ new_graph_' = <<>>
            /\ new_values_' = EmptyMap
            /\ new_timestamps_' = EmptyMap
            /\ history' = "accepted"
            /\ last' = Step("solve", TRUE)
            /\ UNCHANGED tnew_values
       ELSE /\ last' = Step("solve", FALSE)
            /\ UNCHANGED <<running_, thread_, tasks, taskVars,
                           pendingVars, history>>
  /\ UNCHANGED <<callerVars, resultVars, mutex_, smoother_, cpc, crashed>>

\* solve() as the orchestrating layer calls it, on its live deque.
Solve == SolveGiven(propagations)

\* ------------------------------------------------- Optimization::getResult
\* Labels of the phases timed by solveThreaded and by getResult.
TaskPhases == {"optimize", "calculateEstimate", "cachePropagations"}
MergePhases == {"deqeueCleanup", "copyCachedPropagations",
                "repropagateNewPropagations"}

\* updateTiming for a set of labels: each gets the stamp.
updateTiming(tm, labels, stamp) == [l \in labels |-> stamp] @@ tm

\* Values a read outside an empty container may yield.
GarbageIdx == 0..MaxIdx
GarbageTime == {0, MaxTime + 1}
GarbageStamp == {MaxTime + 1}

\* The three loops of getResult on the caller's deque, front_idx being
\* propagations_.front().getFirstStateIdx(): [propagation, stored].
merge(propagation, stored, front_idx) ==
  LET trimmed == deqeueCleanup(propagation, front_idx)
      copied == copyCachedPropagations(trimmed, stored, {}, 1)
  IN  [propagation |->
         repropagateNewPropagations(copied.propagation, copied.updated, 1),
       stored |-> copied.stored]

\* The second check of getResult(): it joins when the thread is joinable and
\* returns false otherwise.
joinsAlways == TRUE

getResultJoins == joinable

\* getResult() returns false at its first check: the task is still running.
GetResultRunning ==
  /\ CallerReady
  /\ stillRunning
  /\ last' = Step("getResult", FALSE)
  /\ UNCHANGED <<callerVars, pendingVars, resultVars, running_, thread_,
                 mutex_, smoother_, tasks, taskVars, cpc, crashed, history>>

\* getResult() returns false at its second check: there is nothing to join.
GetResultNotJoinable ==
  /\ CallerReady
  /\ ~stillRunning
  /\ ~getResultJoins
  /\ last' = Step("getResult", FALSE)
  /\ UNCHANGED <<callerVars, pendingVars, resultVars, running_, thread_,
                 mutex_, smoother_, tasks, taskVars, cpc, crashed, history>>

\* getResult() saw running_ false and a joinable thread: it calls join().
GetResultJoin ==
  /\ CallerReady
  /\ ~stillRunning
  /\ getResultJoins
  /\ cpc' = "join"
  /\ last' = Step("join", TRUE)
  /\ UNCHANGED <<callerVars, pendingVars, resultVars, running_, thread_,
                 mutex_, smoother_, tasks, taskVars, crashed, history>>

\* join() has returned, the lock is taken and there is no new result.
GetResultNone ==
  /\ cpc = "join" /\ ~crashed
  /\ tpc = "done"
  /\ mutex_ = "free"
  /\ ~new_result_
  /\ cpc' = "ready"
  /\ thread_' = nullopt
  /\ tasks' = tasks - 1
  /\ tpc' = "none"
  /\ history' = "discarded"
  /\ last' = Step("getResult", FALSE)
  /\ UNCHANGED <<callerVars, pendingVars, resultVars, running_, mutex_,
                 smoother_, targs, tnew_values, crashed>>

\* join() has returned, the lock is taken and the new result is merged into
\* the caller's deque.  front_idx is read from the stored deque's front.
GetResultMerge(front_idx) ==
  /\ cpc = "join" /\ ~crashed
  /\ tpc = "done"
  /\ mutex_ = "free"
  /\ new_result_
  /\ LET m == merge(propagations, propagations_, front_idx)
         tm == updateTiming(timing_, MergePhases \cup {"optimize"},
                            IF "optimize" \in DOMAIN timing_
                              THEN timing_["optimize"] ELSE 0)
     IN  /\ propagations' = m.propagation
         /\ propagations_' = m.stored
         /\ timing_' = tm
         /\ timing' = tm
  /\ new_result_' = FALSE
  /\ cpc' = "ready"
  /\ thread_' = nullopt
  /\ tasks' = tasks - 1
  /\ tpc' = "none"
  /\ history' = "delivered"
  /\ last' = Step("getResult", TRUE)
  /\ UNCHANGED <<idx, added, prior_added, pendingVars, running_, mutex_,
                 smoother_, targs, tnew_values, crashed>>

\* The read of propagations_.front() in getResult.
GetResultStored ==
  /\ propagations_ # <<>>
  /\ GetResultMerge(getFirstStateIdx(propagations_[1]))

\* The same read when the stored deque is empty: front() of an empty deque
\* yields any index, or the process dies.  With the caller's deque empty as
\* well the loop condition stops before the read.
GetResultStoredEmpty ==
  /\ propagations_ = <<>>
  /\ \/ \E g \in GarbageIdx : GetResultMerge(g)
     \/ /\ cpc = "join" /\ ~crashed /\ tpc = "done" /\ new_result_
        /\ propagations # <<>>
        /\ crashed' = TRUE
        /\ last' = Step("terminate", FALSE)
        /\ UNCHANGED <<callerVars, pendingVars, resultVars, running_,
                       thread_, mutex_, smoother_, tasks, taskVars, cpc, history>>

\* Optimization::getResult(propagation, timing)
GetResult ==
  \/ GetResultRunning
  \/ GetResultNotJoinable
  \/ GetResultJoin
  \/ GetResultNone
  \/ GetResultStored
  \/ GetResultStoredEmpty

\* --------------------------------------------- Optimization::solveThreaded
TaskAt(pc) == tpc = pc /\ ~crashed

\* An exit of solveThreaded before the result is published:
\* running_.store(false); return.
AbortKeepsRunning ==
  /\ tpc' = "exit"
  /\ last' = Step("abort", FALSE)
  /\ UNCHANGED <<resultVars, running_>>

AbortFlagsResult ==
  /\ running_' = FALSE
  /\ tpc' = "exit"
  /\ last' = Step("abort", FALSE)
  /\ new_result_' = TRUE
  /\ UNCHANGED <<timing_, propagations_>>

Abort ==
  /\ running_' = FALSE
  /\ tpc' = "exit"
  /\ last' = Step("abort", FALSE)
  /\ UNCHANGED resultVars

\* smoother_.update(graph, values, stamps) returns.
TaskUpdate ==
  /\ TaskAt("update")
  /\ updateAccepts(smoother_, targs.graph, targs.values, targs.stamps)
  /\ smoother_' = update(smoother_, targs.graph, targs.values, targs.stamps)
  /\ tpc' = "estimate"
  /\ last' = Step("update", TRUE)
  /\ UNCHANGED <<callerVars, pendingVars, resultVars, running_, thread_,
                 mutex_, tasks, targs, tnew_values, cpc, crashed, history>>

\* smoother_.update throws; the smoother is taken to be left as it was.
TaskUpdateThrows ==
  /\ TaskAt("update")
  /\ Abort
  /\ UNCHANGED <<callerVars, pendingVars, thread_, mutex_,
                 smoother_, tasks, targs, tnew_values, cpc, crashed, history>>

\* smoother_.calculateEstimate() returns.
TaskEstimate(delta) ==
  /\ TaskAt("estimate")
  /\ tnew_values' = calculateEstimate(smoother_, delta)
  /\ tpc' = "cache"
  /\ last' = Step("calculateEstimate", TRUE)
  /\ UNCHANGED <<callerVars, pendingVars, resultVars, running_, thread_,
                 mutex_, smoother_, tasks, targs, cpc, crashed, history>>

\* smoother_.calculateEstimate() throws.
TaskEstimateThrows ==
  /\ TaskAt("estimate")
  /\ Abort
  /\ UNCHANGED <<callerVars, pendingVars, thread_, mutex_,
                 smoother_, tasks, targs, tnew_values, cpc, crashed, history>>

\* The caching phase of solveThreaded, smallest_time being the smoother's
\* earliest retained timestamp.
TaskCache(smallest_time) ==
  /\ TaskAt("cache")
  /\ LET kept == popMarginalized(targs.propagations, smallest_time)
         r == cacheLoop(kept, tnew_values, 1)
     IN  IF r.ok
           THEN /\ targs' = [targs EXCEPT !.propagations = r.props]
                /\ tpc' = "publish"
                /\ last' = Step("cachePropagations", TRUE)
                /\ UNCHANGED <<running_, resultVars>>
           ELSE /\ Abort
                /\ UNCHANGED targs
  /\ UNCHANGED <<callerVars, pendingVars, thread_, mutex_,
                 smoother_, tasks, tnew_values, cpc, crashed, history>>

\* The process is terminated by a read outside a container.
Terminate ==
  /\ crashed' = TRUE
  /\ last' = Step("terminate", FALSE)
  /\ UNCHANGED <<callerVars, pendingVars, resultVars, running_, thread_,
                 mutex_, smoother_, tasks, taskVars, cpc, history>>

\* std::min_element over the smoother's timestamps.
TaskCacheStamps ==
  /\ DOMAIN smoother_.stamps # {}
  /\ TaskCache(MinOf(Range(smoother_.stamps)))

\* The same with no timestamp retained: the loop condition dereferences
\* end() unless the deque is empty, in which case it is not evaluated and
\* the value plays no part.
TaskCacheNoStamps ==
  /\ DOMAIN smoother_.stamps = {}
  /\ \/ \E g \in GarbageTime : TaskCache(g)
     \/ TaskAt("cache") /\ targs.propagations # <<>> /\ Terminate

\* The end of solveThreaded: under the lock the deque is stored, the timings
\* are updated with stamp and the result is flagged.
TaskPublish(stamp) ==
  /\ TaskAt("publish")
  /\ mutex_ = "free"
  /\ mutex_' = "task"
  /\ propagations_' = targs.propagations
  /\ timing_' = updateTiming(timing_, TaskPhases, stamp)
  /\ new_result_' = TRUE
  /\ running_' = FALSE
  /\ tpc' = "exit"
  /\ last' = Step("publish", TRUE)
  /\ UNCHANGED <<callerVars, pendingVars, thread_, smoother_, tasks, targs,
                 tnew_values, cpc, crashed, history>>

\* propagations.back().getLatestState()->imu->header.stamp
TaskPublishBack ==
  /\ targs.propagations # <<>>
  /\ TaskPublish(getLatestState(
       targs.propagations[Len(targs.propagations)]).imu.stamp)

\* The same on an empty deque: back() yields anything, or the process dies.
TaskPublishEmpty ==
  /\ targs.propagations = <<>>
  /\ \/ \E g \in GarbageStamp : TaskPublish(g)
     \/ TaskAt("publish") /\ Terminate

\* solveThreaded returns: the lock is released and the thread can be joined
\* without waiting.
TaskExit ==
  /\ TaskAt("exit")
  /\ tpc' = "done"
  /\ mutex_' = "free"
  /\ targs' = NoArgs
  /\ tnew_values' = EmptyMap
  /\ last' = Step("exit", TRUE)
  /\ UNCHANGED <<callerVars, pendingVars, resultVars, running_, thread_,
                 smoother_, tasks, cpc, crashed, history>>

solveThreaded ==
  \/ TaskUpdate
  \/ TaskUpdateThrows
  \/ \E delta \in SolverDeltas : TaskEstimate(delta)
  \/ TaskEstimateThrows
  \/ TaskCacheStamps
  \/ TaskCacheNoStamps
  \/ TaskPublishBack
  \/ TaskPublishEmpty
  \/ TaskExit

\* ------------------------------------------------------------ behaviours
Next ==
  \/ \E a \in Readings, dt \in SampleSteps : CallerImu(a, dt)
  \/ CallerPrior
  \/ \E k \in 1..Len(propagations), t \in 0..MaxTime, scan \in RadarScans :
       CallerRadar(k, t, scan)
  \/ \E k \in 1..Len(propagations), t \in 0..MaxTime, h \in BaroHeights :
       CallerBaro(k, t, h)
  \/ Solve
  \/ GetResult
  \/ solveThreaded

Spec == Init /\ [][Next]_vars

\* The same behaviours with a caller that may also hand solve() an empty
\* deque.
GivenDequeNext == Next \/ SolveGiven(<<>>)

GivenDequeSpec == Init /\ [][GivenDequeNext]_vars

\* Where the background thread stands while it uses smoother_: update,
\* calculateEstimate and timestamps().
SmootherInUse == tpc \in {"update", "estimate", "cache"}

\* setSmoother(smoother): the assignment is made whatever the task does; made
\* while the task uses smoother_ it is a data race, after which smoother_
\* holds the new smoother, or what the task's write left, or the process is
\* terminated.
SetSmoother(smoother) ==
  /\ CallerReady
  /\ \/ /\ smoother_' = smoother
        /\ last' = Step("setSmoother", TRUE)
        /\ UNCHANGED crashed
     \/ /\ SmootherInUse
        /\ \/ /\ last' = Step("setSmoother", TRUE)
              /\ UNCHANGED <<smoother_, crashed>>
           \/ /\ crashed' = TRUE
              /\ last' = Step("terminate", FALSE)
              /\ UNCHANGED smoother_
  /\ UNCHANGED <<callerVars, pendingVars, resultVars, running_, thread_,
                 mutex_, tasks, taskVars, cpc, history>>

\* The coordinator with a caller that also reconfigures the smoother, with a
\* freshly constructed one.
ReconfigureNext ==
  \/ Next
  \/ SetSmoother(EmptySmoother)

ReconfigureSpec == Init /\ [][ReconfigureNext]_vars

\* Where the background thread stands while it has a step to take.
TaskPositions == {"update", "estimate", "cache", "publish", "exit"}

\* A step of the background thread, told by its position: every disjunct of
\* solveThreaded but the termination of the process moves it on, nothing
\* else does, and one of them can be taken wherever the thread stands.
TaskStep ==
  /\ tpc \in TaskPositions
  /\ ~crashed
  /\ tpc = "publish" => mutex_ = "free"
  /\ tpc' \in (TaskPositions \cup {"done"}) \ {tpc}

\* The same with a background thread that is scheduled as long as it has a
\* step to take; every solver call returns or throws.
FairSpec == Init /\ [][Next]_vars /\ WF_tpc(TaskStep)

\* -------------------------------------------- Propagation taken on its own
\* One propagation and the two output objects of split are held in the deque
\* as <<source, to, from>>; idx is the counter behind split_idx.  The
\* coordinator is left as constructed.
Source == propagations[1]
SplitTo == propagations[2]
SplitFrom == propagations[3]

\* A Propagation object that holds no state.
EmptyPropagation == MkPropagation(<<>>, 0, nullopt)

\* The reading of the inertial sample taken at tick t: no two samples carry
\* the same reading.
ReadingAt(t) == t + 1

\* The chains a run starts from: empty, with a null front state, with a front
\* state that has no sample, and complete ones that start at tick 0 or 1.
StartChains ==
  {EmptyPropagation,
   MkPropagation(<<nullptr>>, 0, nullopt),
   MkPropagation(<<MkState(0, 1, nullptr,
                           resetIntegrationAndSetBias(<<>>, 0), Some(0))>>,
                 0, nullopt)}
  \cup {MkPropagation(<<MkState(0, 1, Imu(t, ReadingAt(t)),
                                resetIntegrationAndSetBias(<<>>, 0), Some(0))>>,
                      0, nullopt) : t \in {0, 1}}

\* Initial states repropagate may be given: stamped 0 or 2, with a fresh
\* preintegration window or with a window that has already accumulated one
\* sample.
NewInitialStates ==
  {MkState(3, 1, Imu(t, ReadingAt(t)), integrator, Some(0)) :
     t \in {0, 2},
     integrator \in {resetIntegrationAndSetBias(<<>>, 1),
                     integrateMeasurement(
                       resetIntegrationAndSetBias(<<>>, 0), 1, 1)}}

\* The call just made, its return value and its argument.
Call(op, ok, arg) == [op |-> op, ok |-> ok, arg |-> arg]

coordinatorVars == <<timing, added, prior_added, pendingVars, resultVars,
                     running_, thread_, mutex_, smoother_, tasks, taskVars,
                     cpc, history>>

PropInit ==
  /\ propagations \in {<<c, EmptyPropagation, EmptyPropagation>> :
                         c \in StartChains}
  /\ idx = 1
  /\ timing = EmptyMap
  /\ added = {}
  /\ prior_added = FALSE
  /\ new_graph_ = <<>>
  /\ new_values_ = EmptyMap
  /\ new_timestamps_ = EmptyMap
  /\ timing_ = EmptyMap
  /\ new_result_ = FALSE
  /\ propagations_ = <<>>
  /\ running_ = FALSE
  /\ thread_ = nullopt
  /\ mutex_ = "free"
  /\ smoother_ = EmptySmoother
  /\ tasks = 0
  /\ tpc = "none"
  /\ targs = NoArgs
  /\ tnew_values = EmptyMap
  /\ cpc = "ready"
  /\ crashed = FALSE
  /\ history = "fresh"
  /\ last = Step("init", TRUE)

\* The output objects are as declared, no split has written them.
OutputsFresh == SplitTo = EmptyPropagation /\ SplitFrom = EmptyPropagation

\* source.addImuMeasurement(msg), msg stamped t; the caller extends open
\* propagations only.
PropAdd(t) ==
  /\ ~crashed
  /\ OutputsFresh
  /\ ~has_value(getLastStateIdx(Source))
  /\ LET r == addImuMeasurement(Source, Imu(t, ReadingAt(t)))
     IN  /\ propagations' = <<r.prop, SplitTo, SplitFrom>>
         /\ last' = Call("addImuMeasurement", r.ok, Imu(t, ReadingAt(t)))
  /\ UNCHANGED <<idx, crashed, coordinatorVars>>

\* The front state is there but has no sample, which split reads.
FrontHasNoSample ==
  /\ Source.states_ # <<>>
  /\ getFirstState(Source) # nullptr
  /\ getFirstState(Source).imu = nullptr

\* source.split(t, &idx, &to, &from)
PropSplit(t) ==
  /\ ~crashed
  /\ idx <= MaxIdx
  /\ ~FrontHasNoSample
  /\ LET r == split(Source, t, idx, SplitTo, SplitFrom)
     IN  /\ propagations' = <<Source, r.to, r.from>>
         /\ idx' = r.idx
         /\ last' = Call("split", r.ok, t)
  /\ UNCHANGED <<crashed, coordinatorVars>>

\* split on a chain whose front state has no sample dereferences the null
\* sample: the process dies, or the comparison on what was read returns.
PropSplitNoSample(t) ==
  /\ ~crashed
  /\ FrontHasNoSample
  /\ \/ /\ crashed' = TRUE
        /\ last' = Call("terminate", FALSE, t)
     \/ /\ last' = Call("split", FALSE, t)
        /\ UNCHANGED crashed
  /\ UNCHANGED <<propagations, idx, coordinatorVars>>

\* The caller goes on with one of the halves (which = 2: to, 3: from) and
\* declares new output objects.
PropContinue(which) ==
  /\ ~crashed
  /\ propagations[which] # EmptyPropagation
  /\ propagations' = <<propagations[which], EmptyPropagation, EmptyPropagation>>
  /\ last' = Call("continue", TRUE, which)
  /\ UNCHANGED <<idx, crashed, coordinatorVars>>

\* source.repropagate(initial_state)
PropRepropagate(initial_state) ==
  /\ ~crashed
  /\ OutputsFresh
  /\ LET r == repropagate(Source, initial_state)
     IN  /\ propagations' = <<r.prop, SplitTo, SplitFrom>>
         /\ last' = Call("repropagate", r.ok, initial_state)
  /\ UNCHANGED <<idx, crashed, coordinatorVars>>

PropNext ==
  \/ \E t \in 0..MaxTime : PropAdd(t)
  \/ \E t \in 0..MaxTime : PropSplit(t)
  \/ \E t \in 0..MaxTime : PropSplitNoSample(t)
  \/ \E which \in {2, 3} : PropContinue(which)
  \/ \E initial_state \in NewInitialStates : PropRepropagate(initial_state)

PropagationSpec == PropInit /\ [][PropNext]_vars

\* ------------------------------------------ Doppler factors on their own
\* addDopplerFactors is applied to one closed or open propagation, held as
\* the only entry of the deque, with or without a scan attached.

\* Detections at 0.05 m, 0.1 m and 0.5 m, each with its own radial velocity.
Detections == {[range |-> 5, velocity |-> 1], [range |-> 10, velocity |-> 2],
               [range |-> 50, velocity |-> 3]}

\* The scans of at most n detections.
Scans(n) == UNION {[1..k -> Detections] : k \in 0..n}

\* A propagation of two states with the optional members as given.
Annotated(last_state_idx, cfar_detections, B_T_BR) ==
  [addImuMeasurement(MkPropagation(<<InitialState>>, 0, last_state_idx),
                     Imu(1, 1)).prop
     EXCEPT !.cfar_detections_ = cfar_detections, !.B_T_BR_ = B_T_BR]

DopplerInputs ==
  {Annotated(last_state_idx, cfar_detections, B_T_BR) :
     last_state_idx \in {nullopt, Some(1), Some(2)},
     cfar_detections \in {nullopt} \cup {Some(d) : d \in Scans(MaxDetections)},
     B_T_BR \in {nullopt, Some(0)}}

DopplerInit ==
  /\ propagations \in {<<p>> : p \in DopplerInputs}
  /\ idx = 3
  /\ timing = EmptyMap
  /\ added = {}
  /\ prior_added \in BOOLEAN
  /\ LET inc == IF prior_added
                  THEN addPriorFactor(MkIncrement(<<>>, EmptyMap, EmptyMap, {}),
                                      propagations[1])
                  ELSE MkIncrement(<<>>, EmptyMap, EmptyMap, {})
     IN  /\ new_graph_ = inc.graph
         /\ new_values_ = inc.values
         /\ new_timestamps_ = inc.stamps
  /\ timing_ = EmptyMap
  /\ new_result_ = FALSE
  /\ propagations_ = <<>>
  /\ running_ = FALSE
  /\ thread_ = nullopt
  /\ mutex_ = "free"
  /\ smoother_ = EmptySmoother
  /\ tasks = 0
  /\ tpc = "none"
  /\ targs = NoArgs
  /\ tnew_values = EmptyMap
  /\ cpc = "ready"
  /\ crashed = FALSE
  /\ history = "fresh"
  /\ last = Call("init", TRUE, 0)

\* addDopplerFactors(propagation, noise_model), at most twice on one input.
DopplerAdd ==
  /\ ~crashed
  /\ last.op = "init" \/ last.arg = 1
  /\ Commit(addDopplerFactors(Pending, propagations[1]))
  /\ last' = Call("addDopplerFactors", TRUE,
                  IF last.op = "init" THEN 1 ELSE 2)
  /\ UNCHANGED <<propagations, idx, timing, prior_added, resultVars, running_,
                 thread_, mutex_, smoother_, tasks, taskVars, cpc, history>>

DopplerNext == DopplerAdd

DopplerSpec == DopplerInit /\ [][DopplerNext]_vars

\* ------------------------------------- the factor builders on their own
\* addRadarFactor and addBaroFactor are applied to the two halves around a
\* node whose optional members are present or absent, one pair per node
\* index; solve() hands the increment over in between.

\* What a radar event may leave on the closed half; a track is
\* [id, R_p_RT].
RadarAttachments ==
  {[cfar_detections |-> nullopt, cfar_tracks |-> nullopt, B_T_BR |-> nullopt],
   [cfar_detections |-> Some(<<[range |-> 5, velocity |-> 1],
                               [range |-> 50, velocity |-> 3]>>),
    cfar_tracks |-> Some(<<[id |-> 1, R_p_RT |-> 3]>>), B_T_BR |-> Some(0)],
   [cfar_detections |-> nullopt,
    cfar_tracks |-> Some(<<[id |-> 1, R_p_RT |-> 3], [id |-> 2, R_p_RT |-> 4]>>),
    B_T_BR |-> Some(0)],
   [cfar_detections |-> Some(<<[range |-> 50, velocity |-> 3]>>),
    cfar_tracks |-> Some(<<[id |-> 1, R_p_RT |-> 3], [id |-> 2, R_p_RT |-> 4]>>),
    B_T_BR |-> nullopt]}

\* The barometer height on the closed half and the height bias on its states.
BaroAttachments ==
  {[baro_height |-> nullopt, baro_height_bias |-> Some(0)],
   [baro_height |-> Some(7), baro_height_bias |-> nullopt],
   [baro_height |-> Some(7), baro_height_bias |-> Some(0)]}

\* The half that ends at node k: two states, from node k - 1 on.
HalfTo(k, last_state_idx, baro_height_bias) ==
  addImuMeasurement(
    MkPropagation(<<MkState(0, 0, Imu(k - 1, 1),
                            resetIntegrationAndSetBias(<<>>, 0),
                            baro_height_bias)>>,
                  k - 1, last_state_idx),
    Imu(k, 1)).prop

\* addRadarFactor(propagation_to_radar, propagation_from_radar, ...)
BuilderRadar(to_closed, from_closed, scan) ==
  /\ CallerReady
  /\ idx <= MaxIdx
  /\ LET to == [HalfTo(idx, IF to_closed THEN Some(idx) ELSE nullopt, Some(0))
                  EXCEPT !.cfar_detections_ = scan.cfar_detections,
                         !.cfar_tracks_ = scan.cfar_tracks,
                         !.B_T_BR_ = scan.B_T_BR]
         \* the other half starts at node idx, at to's latest state
         from == MkPropagation(<<getLatestState(to)>>, idx,
                               IF from_closed THEN Some(idx + 1) ELSE nullopt)
     IN  /\ propagations' = <<to, from>>
         /\ idx' = idx + 1
         /\ Commit(addRadarFactor(Pending, to, from))
         /\ last' = Step("addRadarFactor", TRUE)
  /\ UNCHANGED <<timing, prior_added, resultVars, running_, thread_, mutex_,
                 smoother_, tasks, taskVars, cpc, history>>

\* addBaroFactor(propagation_to_baro, ...)
BuilderBaro(to_closed, baro) ==
  /\ CallerReady
  /\ idx <= MaxIdx
  /\ LET to == [HalfTo(idx, IF to_closed THEN Some(idx) ELSE nullopt,
                       baro.baro_height_bias)
                  EXCEPT !.baro_height_ = baro.baro_height]
         from == MkPropagation(<<getLatestState(to)>>, idx, nullopt)
     IN  /\ propagations' = <<to, from>>
         /\ idx' = idx + 1
         /\ Commit(addBaroFactor(Pending, to))
         /\ last' = Step("addBaroFactor", TRUE)
  /\ UNCHANGED <<timing, prior_added, resultVars, running_, thread_, mutex_,
                 smoother_, tasks, taskVars, cpc, history>>

BuilderNext ==
  \/ \E to_closed \in BOOLEAN, from_closed \in BOOLEAN,
        scan \in RadarAttachments : BuilderRadar(to_closed, from_closed, scan)
  \/ \E to_closed \in BOOLEAN, baro \in BaroAttachments :
       BuilderBaro(to_closed, baro)
  \/ Solve

BuilderSpec == Init /\ [][BuilderNext]_vars

\* ---------------------------------------------------------------- claims
CallerOps == {"addImuMeasurement", "addPriorFactor", "addRadarFactor",
              "addBaroFactor", "split", "solve", "getResult", "join"}
TaskOps == {"update", "abort", "calculateEstimate", "cachePropagations",
            "publish", "exit"}
GetResultOps == {"getResult", "join"}

\* The background task left solveThreaded without publishing and no
\* getResult() has joined it yet.
Aborted == tpc \in {"exit", "done"} /\ ~new_result_ /\ ~crashed

\* Everything solve() and getResult() could touch, the step record excepted.
allButLast == <<propagations, idx, timing, added, prior_added, new_graph_,
                new_values_, new_timestamps_, timing_, new_result_,
                propagations_, running_, thread_, mutex_, smoother_, tasks,
                tpc, targs, tnew_values, cpc, crashed, history>>

\* C1: at most one background task is started and not joined, and a task is
\* started only from a state where running_ is false and thread_ is not
\* joinable.
C1_OneTaskInFlight ==
  [][/\ tasks' <= 1
     /\ tasks' > tasks => (~running_ /\ ~has_value(thread_))]_vars

\* C1 witness: a task is in flight and a second solve() was just refused.
C1_Witness == tasks = 1 /\ running_ /\ last = Step("solve", FALSE)

\* C2 as claimed: once the task has aborted, the next solve() is accepted
\* with no getResult() in between.
C2_NextSolveAccepted == (Aborted /\ cpc = "ready") => solveAccepts

\* C2 amended: an abort clears running_ but leaves the thread joinable, so
\* solve() is refused until a getResult() call has joined the thread; that
\* call returns false and the solve() after it is accepted.
C2_SolveAfterJoin ==
  [][/\ Aborted => (~running_ /\ ~solveAccepts)
     /\ (Aborted /\ last'.op = "getResult") => (~last'.ok /\ solveAccepts')]_vars

\* C2 witness: the getResult() that joined an aborted task has just returned
\* false and solve() would now be accepted.
C2_Witness == history = "discarded" /\ last = Step("getResult", FALSE)
              /\ solveAccepts /\ new_graph_ # <<>>

\* C3 as claimed: with no getResult() that returned true since the previous
\* solve() call, a solve() returns false and leaves the pending increment.
C3_SecondSolveRefused ==
  [][(history \in {"accepted", "discarded"} /\ last'.op = "solve")
       => (~last'.ok /\ UNCHANGED pendingVars)]_vars

\* C3 amended: with no getResult() that joined the task (returning true, or
\* false after an abort) since the previous accepted solve(), a solve()
\* returns false and leaves the pending increment as it is.
C3_SecondSolveRefusedUntilJoin ==
  [][(history = "accepted" /\ last'.op = "solve")
       => (~last'.ok /\ UNCHANGED pendingVars)]_vars

\* C3 witness: a second solve() was refused while factors were pending.
C3_Witness == history = "accepted" /\ last = Step("solve", FALSE)
              /\ new_graph_ # <<>> /\ DOMAIN new_values_ # {}

\* C4: solve() called while a task runs or a finished task is not collected
\* returns false and changes nothing.
C4_RefusedSolveNoEffect ==
  [][((running_ \/ has_value(thread_)) /\ last'.op = "solve")
       => (~last'.ok /\ UNCHANGED allButLast)]_vars

\* C4 witness: solve() was refused with a published result not yet collected.
C4_Witness == last = Step("solve", FALSE) /\ ~running_ /\ new_result_
              /\ new_graph_ # <<>>

\* C5: getResult() called while running_ is true returns false without
\* joining, without the lock and without touching anything.
C5_GetResultWhileRunning ==
  [][(running_ /\ cpc = "ready" /\ last'.op \in GetResultOps)
       => (last' = Step("getResult", FALSE) /\ UNCHANGED allButLast)]_vars

\* C5 witness: getResult() was refused while the task was between update and
\* publication.
C5_Witness == running_ /\ tpc \in {"estimate", "cache", "publish"}
              /\ last = Step("getResult", FALSE)

\* C6: once a getResult() has returned true, every getResult() before the
\* next accepted solve() returns false and leaves the caller's deque alone.
C6_NoDuplicateDelivery ==
  [][(history = "delivered" /\ last'.op \in GetResultOps)
       => (last' = Step("getResult", FALSE)
           /\ UNCHANGED <<propagations, timing>>)]_vars

\* C6 witness: a further getResult() after a delivery returned false.
C6_Witness == history = "delivered" /\ last = Step("getResult", FALSE)

\* C7: getResult() before any accepted solve() returns false and leaves the
\* caller's deque and timing map unchanged.
C7_GetResultBeforeSolve ==
  [][(history = "fresh" /\ last'.op \in GetResultOps)
       => (last' = Step("getResult", FALSE)
           /\ UNCHANGED <<propagations, timing>>)]_vars

\* C7 witness: getResult() returned false before any solve() was accepted.
C7_Witness == history = "fresh" /\ last = Step("getResult", FALSE)
              /\ Len(propagations) = 2

\* C8: an abort publishes nothing: new_result_ stays false, the stored deque
\* is not overwritten, the getResult() that follows returns false and the
\* caller's deque is not changed by the cycle.
C8_AbortPublishesNothing ==
  [][/\ last'.op = "abort"
          => (~new_result_' /\ UNCHANGED <<propagations_, propagations>>)
     /\ (Aborted /\ last'.op \in GetResultOps)
          => (last'.ok = (last'.op = "join")
              /\ UNCHANGED <<propagations_, propagations, timing>>)]_vars

\* C8 witness: the getResult() that joined an aborted task returned false.
C8_Witness == history = "discarded" /\ last = Step("getResult", FALSE)
              /\ Len(propagations) = 2

\* C9 as claimed: after an abort the Smoother holds nothing of the cycle's
\* increment.
C9_SmootherHoldsNothing ==
  [][last'.op = "abort"
       => (/\ Range(targs.graph) \cap smoother_'.factors = {}
           /\ DOMAIN targs.values \cap DOMAIN smoother_'.values = {})]_vars

\* C9 amended: after an abort the builder's pending increment holds nothing
\* of the cycle's increment, which solve() had cleared; the Smoother keeps
\* what update() took in, the whole graph when the abort comes after update()
\* returned.
C9_PendingHoldsNothing ==
  [][last'.op = "abort"
       => (/\ Range(targs.graph) \cap Range(new_graph_') = {}
           /\ DOMAIN targs.values \cap DOMAIN new_values_' = {}
           /\ tpc \in {"estimate", "cache"}
                => Range(targs.graph) \subseteq smoother_'.factors)]_vars

\* C9 witness: the task aborted after update() had absorbed a non-empty
\* graph.
C9_Witness == last = Step("abort", FALSE) /\ targs.graph # <<>>
              /\ Range(targs.graph) \subseteq smoother_.factors

\* C10: an accepted solve() hands the task the pending increment and the
\* caller's deque as they were, leaves the pending increment empty and
\* returns before the task has taken a step; afterwards no caller step changes
\* the task's copies and no task step changes the caller's deque or the
\* pending increment.
C10_ByValueHandoff ==
  [][/\ last' = Step("solve", TRUE)
          => (/\ targs' = [graph |-> new_graph_, values |-> new_values_,
                           stamps |-> new_timestamps_,
                           propagations |-> propagations]
              /\ new_graph_' = <<>>
              /\ new_values_' = EmptyMap
              /\ new_timestamps_' = EmptyMap
              /\ tpc' = "update")
     /\ (last'.op \in CallerOps /\ last' # Step("solve", TRUE))
          => UNCHANGED <<targs, tnew_values>>
     /\ last'.op \in TaskOps
          => UNCHANGED <<propagations, pendingVars>>]_vars

\* C10 witness: while the task works on its copies the caller has changed its
\* deque and added factors to a fresh increment.
C10_Witness == running_ /\ targs.graph # <<>> /\ new_graph_ # <<>>
               /\ targs.propagations # propagations
               /\ Range(targs.graph) \cap Range(new_graph_) = {}

BuilderOps == {"addPriorFactor", "addRadarFactor", "addBaroFactor"}

isPrefix(a, b) == Len(a) <= Len(b) /\ SubSeq(b, 1, Len(a)) = a

\* C11: every factor and initial value added to the builder is handed over
\* exactly once, with the next accepted solve(): a builder call only appends
\* to the pending increment, an accepted solve() hands the whole pending
\* increment to the task and leaves it empty, and no other step (a refused
\* solve(), getResult(), a step of the task) changes the pending increment.
C11_HandedOverExactlyOnce ==
  [][/\ last'.op \in BuilderOps
          => (/\ isPrefix(new_graph_, new_graph_')
              /\ \A k \in DOMAIN new_values_ :
                    k \in DOMAIN new_values_' /\ new_values_'[k] = new_values_[k]
              /\ UNCHANGED targs)
     /\ last' = Step("solve", TRUE)
          => (/\ targs'.graph = new_graph_
              /\ targs'.values = new_values_
              /\ new_graph_' = <<>>
              /\ new_values_' = EmptyMap)
     /\ (last'.op \notin BuilderOps /\ last' # Step("solve", TRUE))
          => UNCHANGED pendingVars]_vars

\* C11 witness: a second solve() was accepted and handed over factors that
\* were added after the first hand-over, none of them known to the smoother.
C11_Witness == last = Step("solve", TRUE) /\ targs.graph # <<>>
               /\ smoother_.factors # {}
               /\ Range(targs.graph) \cap smoother_.factors = {}

\* C12: from the moment the task has raised new_result_, the flag and the
\* stored deque stay as they are until a getResult() returns true; that call
\* clears the flag, and no solve() is accepted before it.
C12_ResultReadyUntilCollected ==
  [][new_result_
       => (/\ last' # Step("solve", TRUE)
           /\ last' # Step("getResult", TRUE)
                => (new_result_' /\ propagations_' = propagations_)
           /\ last' = Step("getResult", TRUE) => ~new_result_')]_vars

\* C12 witness: with a result ready and not collected the caller has gone on
\* adding radar factors.
C12_Witness == new_result_ /\ ~running_ /\ propagations_ # <<>>
               /\ last = Step("addRadarFactor", TRUE)

\* A non-empty chain all of whose states are there and carry a sample.
Complete(prop) ==
  /\ prop.states_ # <<>>
  /\ \A i \in 1..Len(prop.states_) :
        prop.states_[i] # nullptr /\ prop.states_[i].imu # nullptr

firstTime(prop) == getFirstState(prop).imu.stamp
lastTime(prop) == getLatestState(prop).imu.stamp

\* C13 as claimed: on a complete chain split(t) succeeds for every t with
\* first.t <= t <= last.t.
C13_SplitInsideSpan ==
  [][(last'.op = "split" /\ Complete(Source)
      /\ firstTime(Source) <= last'.arg /\ last'.arg <= lastTime(Source))
       => last'.ok]_vars

\* C13 amended: on a complete chain split(t) succeeds for every t with
\* first.t < t <= last.t, and fails for t = first.t, where no state lies
\* before t.
C13_SplitAfterFirst ==
  [][(last'.op = "split" /\ Complete(Source))
       => (/\ (firstTime(Source) < last'.arg /\ last'.arg <= lastTime(Source))
                 => last'.ok
           /\ last'.arg = firstTime(Source) => ~last'.ok)]_vars

\* C13 witness: a chain of three states was split at its last sample time.
C13_Witness == last.op = "split" /\ last.ok /\ Len(Source.states_) = 3
               /\ last.arg = lastTime(Source)

\* The members of a finite set of integers in ascending order.
RECURSIVE Ascending(_)
Ascending(S) ==
  IF S = {} THEN <<>> ELSE <<MinOf(S)>> \o Ascending(S \ {MinOf(S)})

\* C14: when split(t) succeeds, the timestamps of to followed by those of
\* from, the boundary counted once, are the source's timestamps in order with
\* t inserted (the same sequence when t was a sample time); to ends at t and
\* from starts at t.
C14_SplitKeepsTimestamps ==
  [][(last'.op = "split" /\ last'.ok)
       => (/\ Stamps(SplitTo') \o Tail(Stamps(SplitFrom'))
                = Ascending(Range(Stamps(Source)) \cup {last'.arg})
           /\ lastTime(SplitTo') = last'.arg
           /\ firstTime(SplitFrom') = last'.arg)]_vars

\* C14 witness: a split strictly between two samples, with a sample left on
\* either side.
C14_Witness == last.op = "split" /\ last.ok
               /\ last.arg \notin Range(Stamps(Source))
               /\ Len(SplitTo.states_) >= 3 /\ Len(SplitFrom.states_) >= 2

\* C15: split(t) on an empty chain, on a chain whose front state is null, or
\* with t before the first or after the last sample time returns false and
\* leaves the source, the counter and both output objects as they were.
C15_RejectedSplitNoEffect ==
  [][(/\ last'.op = "split"
      /\ \/ Source.states_ = <<>>
         \/ getFirstState(Source) = nullptr
         \/ (Complete(Source) /\ (\/ last'.arg < firstTime(Source)
                                  \/ last'.arg > lastTime(Source))))
       => (~last'.ok /\ propagations' = propagations /\ idx' = idx)]_vars

\* C15 witness: a split after the last sample time was rejected while the
\* output objects held the halves of an earlier split.
C15_Witness == last.op = "split" /\ ~last.ok /\ Complete(Source)
               /\ last.arg > lastTime(Source)
               /\ SplitTo # EmptyPropagation /\ idx > 1

\* The first source position whose sample time is not before t.
firstNotBefore(prop, t) ==
  MinOf({i \in 1..Len(prop.states_) : prop.states_[i].imu.stamp >= t})

\* C16: the sample that closes to at t carries the readings of the first
\* source sample whose time is >= t, stamped t.  With samples at ticks 0, 2, 4
\* (t = 0, 1, 2) split at tick 3 (t = 1.5) gives to the samples 0, 2, 3 and
\* from the samples 3, 4, the last one being the source's sample of tick 4.
C16_ZeroOrderHold ==
  [][(last'.op = "split" /\ last'.ok)
       => (/\ getLatestState(SplitTo').imu
                = Imu(last'.arg,
                      Source.states_[firstNotBefore(Source, last'.arg)]
                        .imu.reading)
           /\ (Stamps(Source) = <<0, 2, 4>> /\ last'.arg = 3)
                => (/\ Stamps(SplitTo') = <<0, 2, 3>>
                    /\ SplitTo'.states_[3].imu.reading
                         = Source.states_[3].imu.reading
                    /\ Stamps(SplitFrom') = <<3, 4>>
                    /\ SplitFrom'.states_[2].imu = Source.states_[3].imu))]_vars

\* C16 witness: the chain with samples at ticks 0, 2, 4 was split at tick 3.
C16_Witness == last.op = "split" /\ last.ok /\ last.arg = 3
               /\ Stamps(Source) = <<0, 2, 4>>
               /\ Stamps(SplitTo) = <<0, 2, 3>>

\* Every node index a propagation of the deque holds.
nodeIndices(props) ==
  UNION {{getFirstStateIdx(props[k])}
           \cup Range(getLastStateIdx(props[k])) : k \in 1..Len(props)}

\* C17: a successful split gives the counter's value to the boundary, as
\* to's last and from's first node index, and raises the counter by one; a
\* failed split and every other call leave the counter alone; every node
\* index handed out is below the counter, so none is handed out twice.
C17_CounterAssignsOnce ==
  [][/\ (last'.op = "split" /\ last'.ok)
          => (/\ getLastStateIdx(SplitTo') = Some(idx)
              /\ getFirstStateIdx(SplitFrom') = idx
              /\ idx' = idx + 1)
     /\ ~(last'.op = "split" /\ last'.ok) => idx' = idx
     /\ \A i \in nodeIndices(propagations') : i < idx']_vars

\* C17 witness: a second split on the same counter, of the half that starts
\* at the first boundary.
C17_Witness == last.op = "split" /\ last.ok /\ idx = 3
               /\ getFirstStateIdx(Source) = 1
               /\ getFirstStateIdx(SplitFrom) = 2

\* C18: addImuMeasurement returns false and leaves the chain as it is when
\* the chain is empty, the front state is null, the latest state has no
\* sample, or the sample is not later than the latest state's; otherwise it
\* returns true and appends one state that carries the sample.
C18_AddImuMeasurement ==
  [][last'.op = "addImuMeasurement"
       => IF \/ Source.states_ = <<>>
             \/ getFirstState(Source) = nullptr
             \/ getLatestState(Source).imu = nullptr
             \/ last'.arg.stamp <= lastTime(Source)
            THEN ~last'.ok /\ propagations' = propagations
            ELSE /\ last'.ok
                 /\ Len(Source'.states_) = Len(Source.states_) + 1
                 /\ SubSeq(Source'.states_, 1, Len(Source.states_))
                      = Source.states_
                 /\ getLatestState(Source').imu = last'.arg]_vars

\* C18 witness: a sample stamped like the latest state of a chain of three
\* was refused.
C18_Witness == last.op = "addImuMeasurement" /\ ~last.ok
               /\ Len(Source.states_) = 3 /\ last.arg.stamp = lastTime(Source)

\* The samples repropagate replays: those of every state but the first.
replayed(prop) ==
  [i \in 1..(Len(prop.states_) - 1) |-> prop.states_[i + 1].imu]

\* A propagation created from initial_state and extended sample by sample.
sequential(prop, initial_state) ==
  addAllIgnoring(MkPropagation(<<initial_state>>, prop.first_state_idx_,
                               prop.last_state_idx_), replayed(prop), 1)

\* C19 as claimed: a successful repropagate(initial) leaves the states that
\* a propagation created from initial and extended by addImuMeasurement with
\* the same samples holds.
C19_RepropagateIsSequential ==
  [][(last'.op = "repropagate" /\ last'.ok)
       => Source'.states_ = sequential(Source, last'.arg).states_]_vars

\* C19 amended: a successful repropagate(initial) leaves the states that a
\* propagation holds which was created from initial with its preintegration
\* window cleared (bias kept) and extended by addImuMeasurement with the
\* same samples.
C19_RepropagateIsSequentialFromReset ==
  [][(last'.op = "repropagate" /\ last'.ok)
       => Source'.states_ =
            sequential(Source,
                       [last'.arg EXCEPT !.integrator =
                          resetIntegrationAndSetBias(@, @.biasHat)]).states_]_vars

\* C19 witness: a chain of three states was repropagated from an initial
\* state whose window had accumulated a sample.
C19_Witness == last.op = "repropagate" /\ last.ok
               /\ Len(Source.states_) = 3
               /\ last.arg.integrator.deltaTij > 0

\* C20: a repropagate that returns false leaves the propagation as it was,
\* and it returns false on an empty chain and when the initial state's sample
\* is not before the first replayed one; a repropagate that returns true
\* keeps the first and last node index and the number of states.
C20_RepropagateAllOrNothing ==
  [][last'.op = "repropagate"
       => (/\ ~last'.ok => propagations' = propagations
           /\ Source.states_ = <<>> => ~last'.ok
           /\ (Len(Source.states_) >= 2
                /\ last'.arg.imu.stamp >= Source.states_[2].imu.stamp)
                => ~last'.ok
           /\ last'.ok
                => (/\ getFirstStateIdx(Source') = getFirstStateIdx(Source)
                    /\ getLastStateIdx(Source') = getLastStateIdx(Source)
                    /\ Len(Source'.states_) = Len(Source.states_)))]_vars

\* C20 witness: repropagate failed on a chain of three states whose second
\* sample is not later than the initial state's.
C20_Witness == last.op = "repropagate" /\ ~last.ok
               /\ Len(Source.states_) = 3
               /\ last.arg.imu.stamp >= Source.states_[2].imu.stamp

\* A getResult() that returns true with a stored deque that holds an entry.
Delivers == last' = Step("getResult", TRUE) /\ propagations_ # <<>>

\* How many entries the caller's deque holds before the first one whose first
\* node index is f: all of them when there is none.
leading(propagation, f) ==
  LET at == {i \in 1..Len(propagation) :
               getFirstStateIdx(propagation[i]) = f}
  IN  IF at = {} THEN Len(propagation) ELSE MinOf(at) - 1

\* The caller's deque without those entries.
kept(propagation, f) ==
  SubSeq(propagation, leading(propagation, f) + 1, Len(propagation))

indexPair(p) == <<getFirstStateIdx(p), getLastStateIdx(p)>>

\* The stored entries that carry the node-index pair of p, both defined.
solvedFor(p, stored) ==
  {stored[j] : j \in {j \in 1..Len(stored) :
                        /\ has_value(getLastStateIdx(p))
                        /\ indexPair(stored[j]) = indexPair(p)}}

\* C21: a getResult() that returns true removes from the front of the
\* caller's deque the entries that come before the first entry whose first
\* node index is that of the stored deque's front, and no other entry: what
\* is left are the entries from there on, in order, under their node indices.
C21_FrontTrimmedOnly ==
  [][Delivers
       => LET old == kept(propagations, getFirstStateIdx(propagations_[1]))
          IN  /\ Len(propagations') = Len(old)
              /\ \A i \in 1..Len(old) :
                    indexPair(propagations'[i]) = indexPair(old[i])]_vars

\* C21 witness: the entry that started at node 0 was trimmed, the deque now
\* starts at node 1, and the stored deque still holds the open entry.
C21_Witness == last = Step("getResult", TRUE) /\ propagations # <<>>
               /\ getFirstStateIdx(propagations[1]) = 1
               /\ propagations_ # <<>>

\* C22: after a getResult() that returned true, an entry whose node-index
\* pair, both defined, is that of a stored entry equals that stored entry;
\* any other entry is the caller's own, as it was or re-predicted.
C22_MatchedReplaced ==
  [][Delivers
       => LET old == kept(propagations, getFirstStateIdx(propagations_[1]))
          IN  \A i \in 1..Len(old) :
                IF solvedFor(old[i], propagations_) # {}
                  THEN propagations'[i] \in solvedFor(old[i], propagations_)
                  ELSE \/ propagations'[i] = old[i]
                       \/ /\ i > 1
                          /\ propagations'[i] =
                               repropagate(old[i],
                                 getLatestState(propagations'[i - 1])).prop]_vars

\* C22 witness: the closed front entry was replaced by the solved one, whose
\* first state carries the solved pose.
C22_Witness == last = Step("getResult", TRUE) /\ propagations # <<>>
               /\ has_value(getLastStateIdx(propagations[1]))
               /\ getFirstState(propagations[1]).I_p_IB = 1

dopplerFactor(node, d) ==
  <<"Doppler", <<X(node), V(node), B(node)>>, d.velocity>>

farEnough(d) == d.range >= MinRange

\* C24: addDopplerFactors appends one Doppler factor for each detection at
\* 0.1 m or more, in the order of the scan, and none for a closer one; a
\* closer detection does not stop the ones after it; without a last node
\* index, detections or the sensor-to-body transform the increment is as it
\* was.  Values and timestamps are never touched.
C24_DopplerPerDetection ==
  [][last'.op = "addDopplerFactors"
       => LET p == propagations[1]
              accepted ==
                IF /\ has_value(getLastStateIdx(p))
                   /\ has_value(p.cfar_detections_)
                   /\ has_value(p.B_T_BR_)
                  THEN SelectSeq(value(p.cfar_detections_), farEnough)
                  ELSE <<>>
          IN  /\ new_graph_' =
                   new_graph_ \o [i \in 1..Len(accepted) |->
                                    dopplerFactor(value(getLastStateIdx(p)),
                                                  accepted[i])]
              /\ UNCHANGED <<new_values_, new_timestamps_, added>>]_vars

\* C24 witness: of a scan with a detection at 0.05 m followed by one at
\* 0.5 m, the second alone has its factor in the increment.
C24_Witness ==
  /\ last.op = "addDopplerFactors"
  /\ propagations[1].cfar_detections_
       = Some(<<[range |-> 5, velocity |-> 1], [range |-> 50, velocity |-> 3]>>)
  /\ new_graph_ = <<dopplerFactor(1, [range |-> 50, velocity |-> 3])>>

\* How many entries of the task's deque come before the first one whose
\* first state is not older than smallest_time.
marginalized(props, smallest_time) ==
  LET at == {i \in 1..Len(props) :
               getFirstState(props[i]).imu.stamp >= smallest_time}
  IN  IF at = {} THEN Len(props) ELSE MinOf(at) - 1

\* The first state of prop with the solved pose, velocity and bias of its
\* first node and an empty preintegration window.
solvedFirst(prop, new_values) ==
  LET node == getFirstStateIdx(prop)
      first == getFirstState(prop)
  IN  MkState(new_values[X(node)], new_values[V(node)], first.imu,
              resetIntegrationAndSetBias(first.integrator, new_values[B(node)]),
              first.baro_height_bias)

\* C25: a task that succeeds first drops from the front of its deque the
\* propagations whose first state is older than the smoother's earliest
\* retained timestamp, and turns every other one into its re-prediction from
\* its first state with the solved pose, velocity and bias of its first node,
\* under the same node indices; nothing is stored or flagged by then.  The
\* flag is raised in the one step that takes the lock and stores that deque.
C25_CachedThenPublished ==
  [][/\ (last' = Step("cachePropagations", TRUE) /\ DOMAIN smoother_.stamps # {})
        => LET old == targs.propagations
               k == marginalized(old, MinOf(Range(smoother_.stamps)))
               new == targs'.propagations
           IN  /\ Len(new) = Len(old) - k
               /\ \A i \in 1..Len(new) :
                     LET r == repropagate(old[i + k],
                                          solvedFirst(old[i + k], tnew_values))
                     IN  /\ r.ok /\ new[i] = r.prop
                         /\ getFirstState(new[i])
                              = solvedFirst(old[i + k], tnew_values)
                         /\ indexPair(new[i]) = indexPair(old[i + k])
               /\ UNCHANGED <<resultVars, running_, mutex_>>
               /\ running_ /\ ~new_result_
     /\ (new_result_' /\ ~new_result_)
        => /\ last' = Step("publish", TRUE)
           /\ mutex_ = "free" /\ mutex_' = "task"
           /\ propagations_' = targs.propagations
           /\ running_ /\ ~running_']_vars

\* C25 witness: a result was published whose front entry starts at node 1,
\* the entry of node 0 having been dropped, and carries the solved pose.
C25_Witness ==
  /\ last = Step("publish", TRUE)
  /\ Len(targs.propagations) > 0
  /\ propagations_ = targs.propagations
  /\ getFirstStateIdx(propagations_[1]) = 1
  /\ getFirstState(propagations_[1]).I_p_IB = tnew_values[X(1)]
  /\ getFirstState(propagations_[1]).I_p_IB # smoother_.values[X(1)]

\* C26 as claimed: every accepted solve() ends, the task reaches an exit
\* on which running_ is false.
C26_AcceptedSolveEnds == running_ ~> ~running_

\* C27: getResult() is in join() only with running_ false and a task that
\* has passed its last store and has nothing left but to return; the lock
\* is never held by the caller across join(), it is held by the task only
\* between publication and return, the task's return needs no step of the
\* caller, and once the task has returned the lock is free for getResult().
C27_JoinNeverBlocks ==
  /\ mutex_ \in {"free", "task"}
  /\ mutex_ = "task" => tpc = "exit"
  /\ (tpc = "exit" /\ ~crashed) => ENABLED TaskExit
  /\ cpc = "join" => (~running_ /\ tpc \in {"exit", "done"})
  /\ (cpc = "join" /\ tpc = "done") => mutex_ = "free"

\* C27 witness: getResult() waits in join() while the task, which has
\* published, still holds the lock and is about to return.
C27_Witness == cpc = "join" /\ tpc = "exit" /\ mutex_ = "task" /\ ~crashed

\* C28 as claimed: between an accepted solve() and the end of its task no
\* step of the caller changes smoother_.
C28_SmootherLeftAlone ==
  [][(tpc \in TaskPositions /\ smoother_' # smoother_)
       => last'.op \in TaskOps]_vars

\* The sample times of a chain grow from each state to the next.
StrictlyIncreasing(prop) ==
  \A i \in 1..(Len(prop.states_) - 1) :
    prop.states_[i].imu.stamp < prop.states_[i + 1].imu.stamp

\* C29: from a complete chain, whatever addImuMeasurement, split or
\* repropagate does, accepted or rejected, the chain it is called on and both
\* halves a split has produced are non-empty, complete and strictly
\* increasing in time; a chain of one state is where every run starts.
C29_ChainsStayOrdered ==
  [][Complete(Source)
       => \A k \in 1..3 :
            \/ k > 1 /\ propagations'[k] = EmptyPropagation
            \/ /\ Complete(propagations'[k])
               /\ StrictlyIncreasing(propagations'[k])]_vars

\* C29 witness: a repropagate was rejected on a chain of two states or more
\* that is the second half of an earlier split.
C29_Witness == last.op = "repropagate" /\ ~last.ok
               /\ Len(Source.states_) >= 2 /\ getFirstStateIdx(Source) >= 1

\* Every state's preintegration window holds the samples after the chain's
\* own first state and nothing else: the first window is empty, each later
\* one is its predecessor's with the state's own sample integrated.
Anchored(prop) ==
  /\ getFirstState(prop).integrator
       = resetIntegrationAndSetBias(getFirstState(prop).integrator,
                                    getFirstState(prop).integrator.biasHat)
  /\ \A i \in 2..Len(prop.states_) :
        prop.states_[i].integrator
          = integrateMeasurement(prop.states_[i - 1].integrator,
                                 prop.states_[i].imu.reading,
                                 prop.states_[i].imu.stamp
                                   - prop.states_[i - 1].imu.stamp)

\* C30 as claimed: both halves of a successful split, and the chain after a
\* successful repropagate, are anchored at their own first state, whether t
\* lies between two samples or is a sample time.
C30_WindowsFromOwnAnchor ==
  [][/\ (last'.op = "split" /\ last'.ok /\ Complete(Source))
        => Anchored(SplitTo') /\ Anchored(SplitFrom')
     /\ (last'.op = "repropagate" /\ last'.ok /\ Complete(Source))
        => Anchored(Source')]_vars

\* C31 as claimed, for the two entries a split puts side by side in the
\* caller's deque: the first state of from has the sample time, pose and
\* velocity of the last state of to.
C31_HalvesContinuous ==
  [][(last'.op = "split" /\ last'.ok /\ Complete(Source))
       => /\ getFirstState(SplitFrom').imu.stamp
               = getLatestState(SplitTo').imu.stamp
          /\ getNavState(getFirstState(SplitFrom'))
               = getNavState(getLatestState(SplitTo'))]_vars

\* The factors of one kind in a graph, in its order.
ofKind(graph, kind) == SelectSeq(graph, LAMBDA f : f[1] = kind)

\* The inertial factors of the propagations of ps that have a last node
\* index: first and last node, bound through the preintegrator of the
\* propagation's latest state.
RECURSIVE imuFactors(_)
imuFactors(ps) ==
  IF ps = <<>> THEN <<>>
  ELSE (IF has_value(getLastStateIdx(Head(ps)))
          THEN LET p == Head(ps)
                   i == getFirstStateIdx(p)
                   j == value(getLastStateIdx(p))
               IN  << <<"CombinedImu", <<X(i), V(i), X(j), V(j), B(i), B(j)>>,
                        getLatestState(p).integrator>> >>
          ELSE <<>>) \o imuFactors(Tail(ps))

\* The scan members a closed propagation with a sensor-to-body transform
\* gives factors for.
scanned(p, member) ==
  IF has_value(getLastStateIdx(p)) /\ has_value(member) /\ has_value(p.B_T_BR_)
    THEN value(member) ELSE <<>>

\* C32: addRadarFactor appends one inertial factor for each of its two
\* propagations that has a last node index, `to` first, bound through the
\* preintegrator of that propagation's latest state, and none for one that
\* was never closed; it appends the Doppler and the bearing-range factors of
\* the node `to` ends at; it inserts pose, velocity and bias of that node,
\* with the stamp of to's latest state, as the only new values that are not
\* landmarks; when `to` has no last node index no value is inserted.
C32_RadarFactorPerClosedHalf ==
  [][(last'.op = "addRadarFactor" /\ ~crashed')
       => LET to == propagations'[1]
              from == propagations'[2]
              state == getLatestState(to)
              appended ==
                SubSeq(new_graph_', Len(new_graph_) + 1, Len(new_graph_'))
              detections ==
                SelectSeq(scanned(to, to.cfar_detections_), farEnough)
              tracks == scanned(to, to.cfar_tracks_)
              inserted == DOMAIN new_values_' \ DOMAIN new_values_
          IN  /\ SubSeq(new_graph_', 1, Len(new_graph_)) = new_graph_
              /\ ofKind(appended, "CombinedImu") = imuFactors(<<to, from>>)
              /\ ofKind(appended, "Doppler")
                   = [i \in 1..Len(detections) |->
                        dopplerFactor(value(getLastStateIdx(to)),
                                      detections[i])]
              /\ ofKind(appended, "BearingRange")
                   = [i \in 1..Len(tracks) |->
                        <<"BearingRange",
                          <<X(value(getLastStateIdx(to))), L(tracks[i].id)>>,
                          tracks[i].R_p_RT>>]
              /\ Len(appended) = Len(imuFactors(<<to, from>>))
                                   + Len(detections) + Len(tracks)
              /\ \A key \in DOMAIN new_values_ :
                   new_values_'[key] = new_values_[key]
              /\ IF has_value(getLastStateIdx(to))
                   THEN LET j == value(getLastStateIdx(to))
                        IN  /\ {key \in inserted : key[1] # "L"}
                                 = {X(j), V(j), B(j)}
                            /\ new_values_'[X(j)] = state.I_p_IB
                            /\ new_values_'[V(j)] = state.I_v_IB
                            /\ new_values_'[B(j)] = getBias(state)
                            /\ \A key \in {X(j), V(j), B(j)} :
                                 new_timestamps_'[key] = state.imu.stamp
                   ELSE /\ new_values_' = new_values_
                        /\ new_timestamps_' = new_timestamps_]_vars

\* C32 witness: a call whose two propagations both have a last node index
\* left two inertial factors, after a call whose `to` had none and left no
\* value of its node.
C32_Witness ==
  /\ last.op = "addRadarFactor"
  /\ has_value(getLastStateIdx(propagations[1]))
  /\ has_value(getLastStateIdx(propagations[2]))
  /\ Len(ofKind(new_graph_, "CombinedImu")) = 2
  /\ X(2) \in DOMAIN new_values_
  /\ X(1) \notin DOMAIN new_values_
  /\ new_graph_[Len(new_graph_)][1] = "BearingRange"

\* How many bearing-range factors of a graph are on a landmark.
landmarkFactors(graph, id) ==
  Cardinality({i \in 1..Len(graph) :
                 graph[i][1] = "BearingRange" /\ graph[i][2][2] = L(id)})

\* C33: whatever the sequence of addRadarFactor calls and of solve() handing
\* the increment over, a landmark that is marked added is never inserted
\* into the pending values again; a call inserts the position of a landmark
\* it refers to, seen from to's latest state at the first track that names
\* it, exactly when the landmark was not marked added, and marks it; and
\* every reference appends one bearing-range factor and sets the landmark's
\* timestamp to the stamp of to's latest state.
C33_LandmarkSeededOnce ==
  [][/\ \A id \in added :
          /\ id \in added'
          /\ L(id) \in DOMAIN new_values_' => L(id) \in DOMAIN new_values_
     /\ (last'.op = "addRadarFactor" /\ ~crashed')
          => LET to == propagations'[1]
                 state == getLatestState(to)
                 tracks == scanned(to, to.cfar_tracks_)
                 ids == {tracks[i].id : i \in 1..Len(tracks)}
                 appended ==
                   SubSeq(new_graph_', Len(new_graph_) + 1, Len(new_graph_'))
             IN  /\ added' = added \cup ids
                 /\ \A id \in ids :
                      LET refs == {i \in 1..Len(tracks) : tracks[i].id = id}
                          first == CHOOSE i \in refs : \A j \in refs : i <= j
                      IN  /\ landmarkFactors(appended, id) = Cardinality(refs)
                          /\ new_timestamps_'[L(id)] = state.imu.stamp
                          /\ id \notin added
                               => /\ L(id) \notin DOMAIN new_values_
                                  /\ new_values_'[L(id)]
                                       = state.I_p_IB
                                           + tracks[first].R_p_RT]_vars

\* C33 witness: landmark 1 was seeded by a first call, solve() took the
\* increment, and a second call referred to it again: the pending increment
\* holds its factor and its timestamp and no initial position for it.
C33_Witness ==
  /\ last.op = "addRadarFactor"
  /\ history = "accepted"
  /\ L(1) \in DOMAIN targs.values
  /\ landmarkFactors(new_graph_, 1) = 1
  /\ L(1) \in DOMAIN new_timestamps_
  /\ L(1) \notin DOMAIN new_values_
  /\ L(2) \in DOMAIN new_values_

linked(props, i) ==
  /\ has_value(getLastStateIdx(props[i]))
  /\ value(getLastStateIdx(props[i])) = getFirstStateIdx(props[i + 1])

C36_NoReadOfEmptyDeque ==
  /\ (TaskAt("publish") /\ DOMAIN smoother_.stamps # {})
       => targs.propagations # <<>>
  /\ (new_result_ /\ ~crashed /\ DOMAIN smoother_.stamps # {})
       => propagations_ # <<>>

====
